---- MODULE Spec2Model ----
(***************************************************************************)
(* scripts/run_database_setup.py: a linear setup script.  It resolves two  *)
(* credentials from the environment, builds a client, reads two SQL files, *)
(* sends each through the exec_sql RPC, queries price_history twice and    *)
(* prints a closing banner.                                                *)
(*                                                                         *)
(* Strings are tuples of character codes (so that sorting, joining and     *)
(* number formatting are computed, not assumed).  A console line is a      *)
(* record: the literal text of the print call and the value interpolated   *)
(* into it (<<>> when the line is a plain literal).                        *)
(*                                                                         *)
(* Two executions of the script ("a" and "b") are modelled side by side.   *)
(* They see the same files and the same remote responses and differ only   *)
(* in the values of their credentials.                                     *)
(***************************************************************************)
EXTENDS Integers, Sequences, FiniteSets, TLC

\* Longest list of rows the symbols query returns.
MaxRows == 3
\* The row counts the count query returns: 0, CountStep, 2 * CountStep, ...
\* up to MaxCount steps (one and two digits, so that formatting matters).
MaxCount == 3
CountStep == 6

Runs == {"a", "b"}

---------------------------------------------------------------------------
\* Input domains

\* os.environ.get(name): None when the variable is unset, else its string.
None == [set |-> FALSE, val |-> <<>>]
EnvStr(s) == [set |-> TRUE, val |-> s]

\* "u1", "u2": two endpoint URLs; "k1", "k2": two service-role keys.
UrlValues == {None, EnvStr(<<>>), EnvStr(<<117, 49>>), EnvStr(<<117, 50>>)}
KeyValues == {None, EnvStr(<<>>), EnvStr(<<107, 49>>), EnvStr(<<107, 50>>)}

\* Python truthiness of an Optional[str]: None and "" are falsy.
Falsy(v) == ~v.set \/ v.val = <<>>

\* The credential of the reference execution "b": as empty as v is, but
\* when v is a value, the fixed value ref.  Every execution "a" is thus
\* paired with the same reference, whatever "a"'s own values are.
Reference(v, ref) == IF Falsy(v) THEN v ELSE EnvStr(ref)

SchemaPath == "scripts/001_reset_and_create_enhanced_schema.sql"
SeedPath == "scripts/002_seed_sample_data.sql"
Paths == {SchemaPath, SeedPath}

\* A file is readable with some text ("Q1", "Q2"), or open()/read() raises.
FileStates ==
    {[readable |-> TRUE, text |-> t, error |-> ""] : t \in {<<81, 49>>, <<81, 50>>}}
    \cup {[readable |-> FALSE, text |-> <<>>, error |-> e] :
              e \in {"FileNotFoundError", "PermissionError"}}

\* Exception messages the remote client raises with ("E1", "E2").
Messages == {<<69, 49>>, <<69, 50>>}

\* Symbols stored in price_history: "A", "AB", "B".
Symbols == {<<65>>, <<65, 66>>, <<66>>}

RowLists == UNION {[1..n -> [symbol : Symbols]] : n \in 0..MaxRows}

\* What a remote call does: returns (ok) or raises Exception(msg).
Returned(n, rows) == [ok |-> TRUE, msg |-> <<>>, count |-> n, data |-> rows]
Raised(m) == [ok |-> FALSE, msg |-> m, count |-> 0, data |-> <<>>]
Failures == {Raised(m) : m \in Messages}
ExecResponses == {Returned(0, <<>>)} \cup Failures
Counts == {n * CountStep : n \in 0..MaxCount}
CountResponses == {Returned(n, <<>>) : n \in Counts} \cup Failures
SelectResponses == {Returned(0, rows) : rows \in RowLists} \cup Failures

---------------------------------------------------------------------------
\* Pure helpers

\* str(e)
str(e) == e.msg

\* f"{n}" for a non-negative int: its decimal digits.
RECURSIVE IntToStr(_)
IntToStr(n) ==
    IF n < 10 THEN <<48 + n>> ELSE IntToStr(n \div 10) \o <<48 + (n % 10)>>

\* str.__lt__: lexicographic by code point, a proper prefix is smaller.
RECURSIVE LexLess(_, _)
LexLess(x, y) ==
    IF x = <<>> THEN y # <<>>
    ELSE IF y = <<>> THEN FALSE
    ELSE IF x[1] # y[1] THEN x[1] < y[1]
    ELSE LexLess(Tail(x), Tail(y))

\* A sort that puts the largest first (a reversed comparison).
RECURSIVE sortedDescending(_)
sortedDescending(S) ==
    IF S = {} THEN <<>>
    ELSE LET m == CHOOSE x \in S : \A y \in S \ {x} : LexLess(y, x)
         IN  <<m>> \o sortedDescending(S \ {m})

\* sorted(iterable of str): ascending list.
RECURSIVE sorted(_)
sorted(S) ==
    IF S = {} THEN <<>>
    ELSE LET m == CHOOSE x \in S : \A y \in S \ {x} : LexLess(x, y)
         IN  <<m>> \o sorted(S \ {m})

\* ', '.join(list)
RECURSIVE join(_, _)
join(sep, s) ==
    IF s = <<>> THEN <<>>
    ELSE IF Len(s) = 1 THEN s[1]
    ELSE s[1] \o sep \o join(sep, Tail(s))

CommaSpace == <<44, 32>>

\* set(row['symbol'] for row in symbols_result.data)
unique_symbols(data) == {data[i].symbol : i \in DOMAIN data}

\* create_client(url, key): the handle holding both credentials.
NoClient == [made |-> FALSE, url |-> <<>>, key |-> <<>>]
create_client(url, key) == [made |-> TRUE, url |-> url.val, key |-> key.val]

\* A variable that is unbound until the file has been read.
Unbound == [loaded |-> FALSE, text |-> <<>>]
Bound(t) == [loaded |-> TRUE, text |-> t]

\* print(literal) and print(f"literal{value}")
L(t) == [text |-> t, arg |-> <<>>]
F(t, a) == [text |-> t, arg |-> a]

Rule == L("================")

---------------------------------------------------------------------------
VARIABLES
    SUPABASE_URL,               \* per run: the URL read from the environment
    SUPABASE_SERVICE_ROLE_KEY,  \* per run: the key read from the environment
    files,                      \* the two SQL files on disk (shared)
    supabase,                   \* per run: the client handle
    schema_sql,                 \* per run: text of the schema script
    seed_sql,                   \* per run: text of the seed script
    out,                        \* per run: console output (stdout)
    stderr,                     \* per run: traceback of an uncaught exception
    net,                        \* per run: remote calls issued, with their outcome
    pc,                         \* per run: position in the script
    exitCode                    \* per run: exit status, once pc = "exited"

vars == <<SUPABASE_URL, SUPABASE_SERVICE_ROLE_KEY, files, supabase, schema_sql,
          seed_sql, out, stderr, net, pc, exitCode>>

\* f with every run at label l moved to G(run).
Upd(f, l, G(_)) == [r \in Runs |-> IF pc[r] = l THEN G(r) ELSE f[r]]

At(l) == \E r \in Runs : pc[r] = l

Init ==
    /\ \E u \in UrlValues, k \in KeyValues :
         /\ SUPABASE_URL =
                [r \in Runs |-> IF r = "a" THEN u ELSE Reference(u, <<117, 49>>)]
         /\ SUPABASE_SERVICE_ROLE_KEY =
                [r \in Runs |-> IF r = "a" THEN k ELSE Reference(k, <<107, 49>>)]
    /\ files \in [Paths -> FileStates]
    /\ supabase = [r \in Runs |-> NoClient]
    /\ schema_sql = [r \in Runs |-> Unbound]
    /\ seed_sql = [r \in Runs |-> Unbound]
    /\ out = [r \in Runs |-> <<>>]
    /\ stderr = [r \in Runs |-> <<>>]
    /\ net = [r \in Runs |-> <<>>]
    /\ pc = [r \in Runs |-> "check_credentials"]
    /\ exitCode = [r \in Runs |-> 0]

---------------------------------------------------------------------------
\* Lines 8-11: if not SUPABASE_URL or not SUPABASE_SERVICE_ROLE_KEY

\* The same test with "and" between the two operands.
CredentialsMissingBoth(r) ==
    Falsy(SUPABASE_URL[r]) /\ Falsy(SUPABASE_SERVICE_ROLE_KEY[r])

CredentialsMissing(r) ==
    Falsy(SUPABASE_URL[r]) \/ Falsy(SUPABASE_SERVICE_ROLE_KEY[r])

MissingCredentialLines ==
    << L("ERROR: Missing Supabase credentials!"),
       L("Required environment variables: SUPABASE_URL, SUPABASE_SERVICE_ROLE_KEY") >>

\* The error branch without its exit(1).
AfterCheckNoExit(r) == "create_client"

\* exit(1) ends the script; otherwise control falls through to line 14.
AfterCheck(r) == IF CredentialsMissing(r) THEN "exited" ELSE "create_client"

CheckCredentials ==
    /\ At("check_credentials")
    /\ out' = Upd(out, "check_credentials",
                  LAMBDA r : IF CredentialsMissing(r)
                             THEN out[r] \o MissingCredentialLines ELSE out[r])
    /\ exitCode' = Upd(exitCode, "check_credentials",
                       LAMBDA r : IF CredentialsMissing(r) THEN 1 ELSE exitCode[r])
    /\ pc' = Upd(pc, "check_credentials",
                 LAMBDA r : AfterCheck(r))
    /\ UNCHANGED <<SUPABASE_URL, SUPABASE_SERVICE_ROLE_KEY, files, supabase,
                   schema_sql, seed_sql, stderr, net>>

---------------------------------------------------------------------------
\* Lines 14-18: client construction and the title banner

\* A title that interpolates the endpoint URL.
TitleLinesWithUrl(r) ==
    << Rule, F("CRYPTO TRADING PLATFORM - DATABASE SETUP ", SUPABASE_URL[r].val), Rule >>

TitleLines(r) ==
    << Rule, L("CRYPTO TRADING PLATFORM - DATABASE SETUP"), Rule >>

CreateClient ==
    /\ At("create_client")
    /\ supabase' = Upd(supabase, "create_client",
                       LAMBDA r : create_client(SUPABASE_URL[r],
                                                SUPABASE_SERVICE_ROLE_KEY[r]))
    /\ out' = Upd(out, "create_client", LAMBDA r : out[r] \o TitleLines(r))
    /\ pc' = Upd(pc, "create_client", LAMBDA r : "read_schema")
    /\ UNCHANGED <<SUPABASE_URL, SUPABASE_SERVICE_ROLE_KEY, files, schema_sql,
                   seed_sql, stderr, net, exitCode>>

---------------------------------------------------------------------------
\* Lines 20-29: the two reads; neither is inside a try

\* The traceback Python writes when an exception reaches the top level.
Traceback(path) ==
    << [text |-> "Traceback (most recent call last):", arg |-> <<>>],
       [text |-> files[path].error, arg |-> <<>>] >>

\* A read whose error is swallowed.
AfterReadLenient(path, next) == next

\* Where control is after open(path).read(): the next statement, or the
\* interpreter's top level when the read raised.

AfterRead(path, next) == IF files[path].readable THEN next ELSE "exited"

ReadSchema ==
    /\ At("read_schema")
    /\ out' = Upd(out, "read_schema",
                  LAMBDA r : out[r] \o <<L("\n[v0] Reading SQL scripts...")>>)
    /\ schema_sql' = Upd(schema_sql, "read_schema",
                         LAMBDA r : IF files[SchemaPath].readable
                                    THEN Bound(files[SchemaPath].text)
                                    ELSE schema_sql[r])
    /\ stderr' = Upd(stderr, "read_schema",
                     LAMBDA r : IF AfterRead(SchemaPath, "read_seed") = "read_seed"
                                THEN stderr[r] ELSE Traceback(SchemaPath))
    /\ exitCode' = Upd(exitCode, "read_schema",
                       LAMBDA r : IF AfterRead(SchemaPath, "read_seed") = "read_seed"
                                  THEN exitCode[r] ELSE 1)
    /\ pc' = Upd(pc, "read_schema", LAMBDA r : AfterRead(SchemaPath, "read_seed"))
    /\ UNCHANGED <<SUPABASE_URL, SUPABASE_SERVICE_ROLE_KEY, files, supabase,
                   seed_sql, net>>

ReadSeed ==
    /\ At("read_seed")
    /\ seed_sql' = Upd(seed_sql, "read_seed",
                       LAMBDA r : IF files[SeedPath].readable
                                  THEN Bound(files[SeedPath].text)
                                  ELSE seed_sql[r])
    /\ out' = Upd(out, "read_seed",
                  LAMBDA r : IF AfterRead(SeedPath, "step1") = "step1"
                             THEN out[r] \o <<L("[v0] SQL scripts loaded successfully")>>
                             ELSE out[r])
    /\ stderr' = Upd(stderr, "read_seed",
                     LAMBDA r : IF AfterRead(SeedPath, "step1") = "step1"
                                THEN stderr[r] ELSE Traceback(SeedPath))
    /\ exitCode' = Upd(exitCode, "read_seed",
                       LAMBDA r : IF AfterRead(SeedPath, "step1") = "step1"
                                  THEN exitCode[r] ELSE 1)
    /\ pc' = Upd(pc, "read_seed", LAMBDA r : AfterRead(SeedPath, "step1"))
    /\ UNCHANGED <<SUPABASE_URL, SUPABASE_SERVICE_ROLE_KEY, files, supabase,
                   schema_sql, net>>

---------------------------------------------------------------------------
\* Lines 31-60: STEP 1, the schema script through the exec_sql RPC

\* One remote call as the service saw it, with what came back.
Call(op, sql, resp) == [op |-> op, sql |-> sql, resp |-> resp]

ExecSql == "rpc:exec_sql"
SelectCount == "price_history.select(symbol, count=exact)"
SelectSymbols == "price_history.select(symbol)"

Step1Banner ==
    << L("\n================"),
       L("STEP 1: Creating Enhanced Database Schema"),
       Rule >>

SchemaSuccessLines ==
    << L("\n(ok) Schema creation completed successfully!"),
       L("\nTables created:"),
       L("  - user_profiles"),
       L("  - exchange_connections (Kraken, Binance US, Coinbase)"),
       L("  - wallet_connections (MetaMask, WalletConnect, etc.)"),
       L("  - price_history"),
       L("  - trading_orders"),
       L("  - transactions"),
       L("  - portfolio_holdings"),
       L("  - trading_strategies"),
       L("  - price_alerts"),
       L("  - dashboard_stats"),
       L("\n(ok) Row Level Security (RLS) policies enabled"),
       L("(ok) Indexes created for performance"),
       L("(ok) Triggers configured for auto-updates") >>

SchemaErrorLines(e) ==
    << F("\n(x) Error creating schema: ", str(e)),
       L("\nNOTE: If you see 'relation does not exist' errors, this is expected."),
       L("      The script will execute via the Supabase SQL Editor."),
       L("\nPlease run the following scripts manually in Supabase SQL Editor:"),
       L("  1. scripts/001_reset_and_create_enhanced_schema.sql"),
       L("  2. scripts/002_seed_sample_data.sql") >>

\* The success report printed after the try/except instead of inside it.
SchemaHandlerAlwaysSuccess(resp) ==
    IF resp.ok THEN SchemaSuccessLines
    ELSE SchemaErrorLines(resp) \o SchemaSuccessLines

\* The try/except of lines 36-60: what it prints for the call's outcome.

SchemaHandler(resp) ==
    IF resp.ok THEN SchemaSuccessLines ELSE SchemaErrorLines(resp)

\* STEP 2 skipped when the schema call raised.
AfterSchemaStopOnError(resp) == IF resp.ok THEN "step2" ELSE "step3_count"

\* Where control goes after the try/except of STEP 1.
AfterSchema(resp) == "step2"

Step1 ==
    /\ At("step1")
    /\ \E resp \in ExecResponses :
        /\ net' = Upd(net, "step1",
                      LAMBDA r : Append(net[r], Call(ExecSql, schema_sql[r].text, resp)))
        /\ out' = Upd(out, "step1",
                      LAMBDA r : out[r] \o Step1Banner \o SchemaHandler(resp))
        /\ pc' = Upd(pc, "step1", LAMBDA r : AfterSchema(resp))
    /\ UNCHANGED <<SUPABASE_URL, SUPABASE_SERVICE_ROLE_KEY, files, supabase,
                   schema_sql, seed_sql, stderr, exitCode>>

---------------------------------------------------------------------------
\* Lines 62-77: STEP 2, the seed script through the exec_sql RPC

Step2Banner ==
    << L("\n================"),
       L("STEP 2: Seeding Sample Price Data"),
       Rule >>

SeedSuccessLines ==
    << L("\n(ok) Sample data seeded successfully!"),
       L("\nSample cryptocurrencies added:"),
       L("  - BTC (Bitcoin) - 5 historical data points"),
       L("  - ETH (Ethereum) - 5 historical data points"),
       L("  - SOL (Solana) - 3 historical data points"),
       L("  - ADA (Cardano) - 2 historical data points"),
       L("  - MATIC (Polygon) - 2 historical data points") >>

SeedErrorLines(e) == << F("\n(x) Error seeding data: ", str(e)) >>

SeedHandler(resp) ==
    IF resp.ok THEN SeedSuccessLines ELSE SeedErrorLines(resp)

\* An except clause that does not match: the exception reaches the top level.
AfterSeedUncaught(resp) == IF resp.ok THEN "step3_count" ELSE "exited"

\* Where control goes after the try/except of STEP 2.
AfterSeed(resp) == "step3_count"

Step2 ==
    /\ At("step2")
    /\ \E resp \in ExecResponses :
        /\ net' = Upd(net, "step2",
                      LAMBDA r : Append(net[r], Call(ExecSql, seed_sql[r].text, resp)))
        /\ out' = Upd(out, "step2",
                      LAMBDA r : out[r] \o Step2Banner \o SeedHandler(resp))
        /\ pc' = Upd(pc, "step2", LAMBDA r : AfterSeed(resp))
    /\ UNCHANGED <<SUPABASE_URL, SUPABASE_SERVICE_ROLE_KEY, files, supabase,
                   schema_sql, seed_sql, stderr, exitCode>>

---------------------------------------------------------------------------
\* Lines 79-97: STEP 3, two queries of price_history inside one try

Step3Banner ==
    << L("\n================"),
       L("STEP 3: Verifying Database Setup"),
       Rule >>

VerificationErrorLines(e) ==
    << F("\n(x) Verification failed: ", str(e)),
       L("\nPlease ensure the SQL scripts have been executed in Supabase.") >>

CountLines(result) ==
    << L("\n(ok) Database connection successful!"),
       F("(ok) Found {result.count} price history records", IntToStr(result.count)) >>

SymbolsLine(symbols_result) ==
    << F("(ok) Available symbols: ",
         join(CommaSpace, sorted(unique_symbols(symbols_result.data)))) >>

\* Lines 86-88, and the except of lines 95-97 when the first query raises.
CountHandler(resp) ==
    IF resp.ok THEN CountLines(resp) ELSE VerificationErrorLines(resp)

\* The second query in a try of its own.
AfterCountAlways(resp) == "step3_symbols"

\* The second query is inside the try after the first: it runs only when
\* the first returned.

AfterCount(resp) == IF resp.ok THEN "step3_symbols" ELSE "summary"

Step3Count ==
    /\ At("step3_count")
    /\ \E resp \in CountResponses :
        /\ net' = Upd(net, "step3_count",
                      LAMBDA r : Append(net[r], Call(SelectCount, <<>>, resp)))
        /\ out' = Upd(out, "step3_count",
                      LAMBDA r : out[r] \o Step3Banner \o CountHandler(resp))
        /\ pc' = Upd(pc, "step3_count", LAMBDA r : AfterCount(resp))
    /\ UNCHANGED <<SUPABASE_URL, SUPABASE_SERVICE_ROLE_KEY, files, supabase,
                   schema_sql, seed_sql, stderr, exitCode>>

\* Lines 91-93, and the except of lines 95-97 when the second query raises.
SymbolsHandler(resp) ==
    IF resp.ok THEN SymbolsLine(resp) ELSE VerificationErrorLines(resp)

Step3Symbols ==
    /\ At("step3_symbols")
    /\ \E resp \in SelectResponses :
        /\ net' = Upd(net, "step3_symbols",
                      LAMBDA r : Append(net[r], Call(SelectSymbols, <<>>, resp)))
        /\ out' = Upd(out, "step3_symbols",
                      LAMBDA r : out[r] \o SymbolsHandler(resp))
        /\ pc' = Upd(pc, "step3_symbols", LAMBDA r : "summary")
    /\ UNCHANGED <<SUPABASE_URL, SUPABASE_SERVICE_ROLE_KEY, files, supabase,
                   schema_sql, seed_sql, stderr, exitCode>>

---------------------------------------------------------------------------
\* Lines 99-107: the closing banner; the script then ends normally (status 0)

SummaryLines ==
    << L("\n================"),
       L("DATABASE SETUP COMPLETE!"),
       Rule,
       L("\nNext steps:"),
       L("  1. Add exchange API credentials via the Trading page"),
       L("  2. Connect DeFi wallets via the Wallet Connect button"),
       L("  3. Start monitoring crypto prices in real-time"),
       L("  4. Create trading strategies and set price alerts"),
       L("\n================") >>

Summary ==
    /\ At("summary")
    /\ out' = Upd(out, "summary", LAMBDA r : out[r] \o SummaryLines)
    /\ exitCode' = Upd(exitCode, "summary", LAMBDA r : 0)
    /\ pc' = Upd(pc, "summary", LAMBDA r : "exited")
    /\ UNCHANGED <<SUPABASE_URL, SUPABASE_SERVICE_ROLE_KEY, files, supabase,
                   schema_sql, seed_sql, stderr, net>>

---------------------------------------------------------------------------
Next ==
    \/ CheckCredentials
    \/ CreateClient
    \/ ReadSchema
    \/ ReadSeed
    \/ Step1
    \/ Step2
    \/ Step3Count
    \/ Step3Symbols
    \/ Summary

Spec == Init /\ [][Next]_vars

\* The interpreter always runs the next statement, and every remote call
\* returns or raises (section 5: each call blocks until the service responds
\* or errors).
FairSpec == Spec /\ WF_vars(Next)

---------------------------------------------------------------------------
\* Vocabulary of the properties

CredentialsPresent(r) ==
    ~Falsy(SUPABASE_URL[r]) /\ ~Falsy(SUPABASE_SERVICE_ROLE_KEY[r])

FilesReadable == files[SchemaPath].readable /\ files[SeedPath].readable

BothLoaded(r) == schema_sql[r].loaded /\ seed_sql[r].loaded

Exited(r) == pc[r] = "exited"

\* How many console lines of run r were printed by the print call with text t.
NumLines(r, t) == Cardinality({i \in DOMAIN out[r] : out[r][i].text = t})

HasLine(r, t) == \E i \in DOMAIN out[r] : out[r][i].text = t

\* The lines ls appear in run r's console output, consecutively and in order.
Printed(r, ls) ==
    \E i \in 0..(Len(out[r]) - Len(ls)) : SubSeq(out[r], i + 1, i + Len(ls)) = ls

EndsWith(r, ls) ==
    /\ Len(out[r]) >= Len(ls)
    /\ SubSeq(out[r], Len(out[r]) - Len(ls) + 1, Len(out[r])) = ls

Range(s) == {s[i] : i \in DOMAIN s}

\* The number a string of decimal digits denotes.
RECURSIVE DecimalValue(_)
DecimalValue(s) ==
    IF s = <<>> THEN 0
    ELSE 10 * DecimalValue(SubSeq(s, 1, Len(s) - 1)) + (s[Len(s)] - 48)

\* The items of a ", "-separated list ('' is the empty list).
RECURSIVE SplitFrom(_, _)
SplitFrom(s, cur) ==
    IF s = <<>> THEN <<cur>>
    ELSE IF Len(s) >= 2 /\ s[1] = 44 /\ s[2] = 32
         THEN <<cur>> \o SplitFrom(SubSeq(s, 3, Len(s)), <<>>)
         ELSE SplitFrom(Tail(s), Append(cur, s[1]))

SplitList(s) == IF s = <<>> THEN <<>> ELSE SplitFrom(s, <<>>)

StrictlyAscending(s) ==
    \A i \in 1..(Len(s) - 1) : LexLess(s[i], s[i + 1])

RequiredVariablesText ==
    "Required environment variables: SUPABASE_URL, SUPABASE_SERVICE_ROLE_KEY"
Step1Text == "STEP 1: Creating Enhanced Database Schema"
CompleteText == "DATABASE SETUP COMPLETE!"
SchemaOkText == "\n(ok) Schema creation completed successfully!"
SchemaFailText == "\n(x) Error creating schema: "
SeedOkText == "\n(ok) Sample data seeded successfully!"
SeedFailText == "\n(x) Error seeding data: "
ConnectedText == "\n(ok) Database connection successful!"
FoundText == "(ok) Found {result.count} price history records"
AvailableText == "(ok) Available symbols: "
VerificationFailText == "\n(x) Verification failed: "
GuidanceTexts ==
    { "\nNOTE: If you see 'relation does not exist' errors, this is expected.",
      "\nPlease run the following scripts manually in Supabase SQL Editor:",
      "\nPlease ensure the SQL scripts have been executed in Supabase." }

---------------------------------------------------------------------------
\* C1: a run whose SUPABASE_URL or SUPABASE_SERVICE_ROLE_KEY is unset or
\* empty never constructs the client, never reads a SQL file and never issues
\* a remote call; once past the check it has exited with a non-zero status
\* and its whole output is the two error lines, the second naming the
\* required variables.
C1_MissingCredentialsFailFast ==
    \A r \in Runs :
        (Falsy(SUPABASE_URL[r]) \/ Falsy(SUPABASE_SERVICE_ROLE_KEY[r])) =>
            /\ ~supabase[r].made
            /\ ~schema_sql[r].loaded
            /\ ~seed_sql[r].loaded
            /\ net[r] = <<>>
            /\ pc[r] \in {"check_credentials", "exited"}
            /\ Exited(r) =>
                 /\ exitCode[r] # 0
                 /\ Len(out[r]) = 2
                 /\ out[r][2].text = RequiredVariablesText

\* A run with an empty (but set) URL and a usable key has exited.
C1_Witness ==
    \E r \in Runs :
        /\ Exited(r)
        /\ SUPABASE_URL[r] = EnvStr(<<>>)
        /\ ~Falsy(SUPABASE_SERVICE_ROLE_KEY[r])
        /\ exitCode[r] = 1

---------------------------------------------------------------------------
\* C2 as stated: a run with credentials and both files loaded has, when it
\* ends, issued exactly three remote operations: exec_sql(schema),
\* exec_sql(seed) and one verification query, and no fourth.
C2_ExactlyThreeRemoteOperations ==
    \A r \in Runs :
        (Exited(r) /\ CredentialsPresent(r) /\ BothLoaded(r)) =>
            /\ Len(net[r]) = 3
            /\ net[r][1].op = ExecSql /\ net[r][1].sql = schema_sql[r].text
            /\ net[r][2].op = ExecSql /\ net[r][2].sql = seed_sql[r].text
            /\ net[r][3].op = SelectCount

\* C2 amended: the remote operations are issued in the fixed order
\* exec_sql(schema text), exec_sql(seed text), count query, symbols query,
\* whatever the outcome of the two exec_sql calls; the symbols query is a
\* fourth remote call, issued exactly when the count query returned.  None
\* is skipped or repeated: a finished run has issued three calls when the
\* count query raised and four when it returned.
C2_RemoteOperationsInOrder ==
    \A r \in Runs :
        LET n == net[r] IN
        /\ Len(n) <= 4
        /\ Len(n) >= 1 => n[1].op = ExecSql /\ n[1].sql = files[SchemaPath].text
        /\ Len(n) >= 2 => n[2].op = ExecSql /\ n[2].sql = files[SeedPath].text
        /\ Len(n) >= 3 => n[3].op = SelectCount
        /\ Len(n) >= 4 => n[4].op = SelectSymbols /\ n[3].resp.ok
        /\ (Exited(r) /\ CredentialsPresent(r) /\ BothLoaded(r)) =>
              /\ Len(n) >= 3
              /\ Len(n) = IF n[3].resp.ok THEN 4 ELSE 3

\* A finished run with four remote calls although both exec_sql calls raised.
C2_Witness ==
    \E r \in Runs :
        /\ Exited(r)
        /\ Len(net[r]) = 4
        /\ ~net[r][1].resp.ok
        /\ ~net[r][2].resp.ok

---------------------------------------------------------------------------
Completed(r) ==
    /\ Exited(r)
    /\ exitCode[r] = 0
    /\ EndsWith(r, SummaryLines)
    /\ NumLines(r, CompleteText) = 1

\* C3: once both SQL files have been loaded, the run eventually ends with
\* the closing banner as the last thing printed and exit status 0, whatever
\* the remote calls do.
C3_LoadedRunsComplete ==
    \A r \in Runs : (BothLoaded(r) ~> Completed(r))

\* A run completed although all three remote steps failed.
C3_Witness ==
    \E r \in Runs :
        /\ Completed(r)
        /\ Len(net[r]) = 3
        /\ \A i \in 1..3 : ~net[r][i].resp.ok

---------------------------------------------------------------------------
\* C4 as stated: a run ends with a non-zero status only when a credential
\* is missing.
C4_NonZeroOnlyWhenCredentialsMissing ==
    \A r \in Runs :
        (Exited(r) /\ exitCode[r] # 0) =>
            (Falsy(SUPABASE_URL[r]) \/ Falsy(SUPABASE_SERVICE_ROLE_KEY[r]))

\* C4 amended: a run ends with a non-zero status when a credential is
\* missing and also when one of the two SQL files cannot be read; every run
\* with both credentials present and both files read ends with status 0.
\* (Client construction is taken to return, so here these are the only
\* ways to a non-zero status.)
C4_NonZeroIffMissingOrUnreadable ==
    \A r \in Runs :
        Exited(r) =>
            (exitCode[r] # 0 <=>
                \/ Falsy(SUPABASE_URL[r])
                \/ Falsy(SUPABASE_SERVICE_ROLE_KEY[r])
                \/ ~files[SchemaPath].readable
                \/ ~files[SeedPath].readable)

\* Both credentials present, the schema file read, the seed file unreadable:
\* status 1.
C4_Witness ==
    \E r \in Runs :
        /\ Exited(r)
        /\ CredentialsPresent(r)
        /\ files[SchemaPath].readable
        /\ ~files[SeedPath].readable
        /\ exitCode[r] = 1

---------------------------------------------------------------------------
\* C5: with credentials present and either SQL file unreadable, the run
\* never prints the STEP 1 banner or the closing banner and never issues a
\* remote call; it stops at the failing read with a traceback and a
\* non-zero status.
C5_UnreadableFileStopsBeforeStep1 ==
    \A r \in Runs :
        (CredentialsPresent(r) /\ ~FilesReadable) =>
            /\ net[r] = <<>>
            /\ ~HasLine(r, Step1Text)
            /\ ~HasLine(r, CompleteText)
            /\ pc[r] \in {"check_credentials", "create_client", "read_schema",
                          "read_seed", "exited"}
            /\ (pc[r] = "read_seed") => files[SchemaPath].readable
            /\ Exited(r) => (stderr[r] # <<>> /\ exitCode[r] # 0)

\* The schema text was loaded, the seed file was unreadable, the run ended.
C5_Witness ==
    \E r \in Runs :
        /\ Exited(r)
        /\ schema_sql[r].loaded
        /\ ~seed_sql[r].loaded
        /\ ~files[SeedPath].readable
        /\ stderr[r] # <<>>

---------------------------------------------------------------------------
\* C6: when both verification queries returned, exactly one "Found" line is
\* printed and its number is the count the count query returned, and
\* exactly one "Available symbols" line is printed whose ", "-separated
\* items are in strictly ascending order and are exactly the symbols that
\* occur in the returned rows.
C6_VerificationReport ==
    \A r \in Runs :
        (Len(net[r]) = 4 /\ net[r][3].resp.ok /\ net[r][4].resp.ok) =>
            /\ NumLines(r, FoundText) = 1
            /\ NumLines(r, AvailableText) = 1
            /\ \A i \in DOMAIN out[r] :
                 /\ out[r][i].text = FoundText =>
                      DecimalValue(out[r][i].arg) = net[r][3].resp.count
                 /\ out[r][i].text = AvailableText =>
                      LET items == SplitList(out[r][i].arg)
                          rows == net[r][4].resp.data
                      IN  /\ StrictlyAscending(items)
                          /\ Range(items) = {rows[j].symbol : j \in DOMAIN rows}

\* Count 12 and rows B, A, B (a duplicate, out of order) were reported.
C6_Witness ==
    \E r \in Runs :
        /\ Len(net[r]) = 4
        /\ net[r][3].resp.ok /\ net[r][3].resp.count = 12
        /\ net[r][4].resp.ok
        /\ net[r][4].resp.data =
              << [symbol |-> <<66>>], [symbol |-> <<65>>], [symbol |-> <<66>>] >>
        /\ HasLine(r, AvailableText)

---------------------------------------------------------------------------
FailTextOf(i) ==
    IF i = 1 THEN SchemaFailText
    ELSE IF i = 2 THEN SeedFailText
    ELSE VerificationFailText

\* C7: in a finished run every remote call that raised has its failure line
\* printed with the exception's message, immediately followed by a line of
\* remediation guidance, and the run went on to the closing banner.
C7_EveryFailurePrintsMessageAndGuidance ==
    \A r \in Runs :
        (Exited(r) /\ BothLoaded(r)) =>
            /\ HasLine(r, CompleteText)
            /\ \A i \in DOMAIN net[r] :
                 ~net[r][i].resp.ok =>
                    \E j \in 1..(Len(out[r]) - 1) :
                        /\ out[r][j].text = FailTextOf(i)
                        /\ out[r][j].arg = net[r][i].resp.msg
                        /\ out[r][j + 1].text \in GuidanceTexts

---------------------------------------------------------------------------
CredentialStrings ==
    {v.val : v \in {w \in UrlValues \cup KeyValues : ~Falsy(w)}}

\* C8: two runs that both hold non-empty credentials and receive the same
\* files and the same remote responses are at the same point with the same
\* console output, the same traceback, the same remote calls and the same
\* exit status, whatever the values of their credentials; no printed value
\* and no SQL text sent is a credential; the client alone holds them.
C8_OutputIndependentOfCredentials ==
    /\ (CredentialsPresent("a") /\ CredentialsPresent("b")) =>
          /\ out["a"] = out["b"]
          /\ stderr["a"] = stderr["b"]
          /\ net["a"] = net["b"]
          /\ pc["a"] = pc["b"]
          /\ exitCode["a"] = exitCode["b"]
    /\ \A r \in Runs :
          /\ \A i \in DOMAIN out[r] : out[r][i].arg \notin CredentialStrings
          /\ \A i \in DOMAIN net[r] : net[r][i].sql \notin CredentialStrings
          /\ supabase[r].made =>
                /\ supabase[r].url = SUPABASE_URL[r].val
                /\ supabase[r].key = SUPABASE_SERVICE_ROLE_KEY[r].val

\* Two finished runs whose URL and key both differ, with an exception message
\* printed by the schema handler.
C8_Witness ==
    /\ Exited("a") /\ Exited("b")
    /\ CredentialsPresent("a") /\ CredentialsPresent("b")
    /\ SUPABASE_URL["a"] # SUPABASE_URL["b"]
    /\ SUPABASE_SERVICE_ROLE_KEY["a"] # SUPABASE_SERVICE_ROLE_KEY["b"]
    /\ supabase["a"].made /\ supabase["a"] # supabase["b"]
    /\ Len(net["a"]) >= 1 /\ ~net["a"][1].resp.ok
    /\ HasLine("a", SchemaFailText)

---------------------------------------------------------------------------
\* C9: once STEP 1 (STEP 2) has run, its success marker and fixed list are
\* printed, once, exactly when its exec_sql call returned, and its failure
\* marker is printed, once, exactly when the call raised; a run that has
\* passed STEP 2 has sent the seed file's text, unmodified, as its second
\* exec_sql call, whether the schema call returned or raised.
C9_StepOutcomeReports ==
    \A r \in Runs :
        /\ Len(net[r]) >= 1 =>
             LET ok == net[r][1].resp.ok IN
             /\ NumLines(r, SchemaOkText) = (IF ok THEN 1 ELSE 0)
             /\ Printed(r, SchemaSuccessLines) <=> ok
             /\ NumLines(r, SchemaFailText) = (IF ok THEN 0 ELSE 1)
        /\ Len(net[r]) < 1 =>
             ~HasLine(r, SchemaOkText) /\ ~HasLine(r, SchemaFailText)
        /\ Len(net[r]) >= 2 =>
             LET ok == net[r][2].resp.ok IN
             /\ NumLines(r, SeedOkText) = (IF ok THEN 1 ELSE 0)
             /\ Printed(r, SeedSuccessLines) <=> ok
             /\ NumLines(r, SeedFailText) = (IF ok THEN 0 ELSE 1)
             /\ net[r][2].op = ExecSql
             /\ net[r][2].sql = files[SeedPath].text
        /\ Len(net[r]) < 2 =>
             ~HasLine(r, SeedOkText) /\ ~HasLine(r, SeedFailText)
        /\ (BothLoaded(r) /\ pc[r] \in {"step3_count", "step3_symbols",
                                        "summary", "exited"}) =>
             Len(net[r]) >= 2

\* The schema call raised and the seed call then returned.
C9_Witness ==
    \E r \in Runs :
        /\ Len(net[r]) >= 2
        /\ ~net[r][1].resp.ok
        /\ net[r][2].resp.ok
        /\ HasLine(r, SchemaFailText)
        /\ HasLine(r, SeedOkText)

---------------------------------------------------------------------------
\* The parts of C10 about the order of the two queries and the lines printed
\* for each outcome.
C10_Order(r) ==
    /\ Len(net[r]) >= 4 => (net[r][4].op = SelectSymbols /\ net[r][3].resp.ok)
    /\ (Len(net[r]) >= 3 /\ ~net[r][3].resp.ok) =>
          /\ Len(net[r]) = 3
          /\ NumLines(r, VerificationFailText) = 1
          /\ ~HasLine(r, ConnectedText)
          /\ ~HasLine(r, FoundText)
          /\ ~HasLine(r, AvailableText)
    /\ HasLine(r, AvailableText) <=>
          (Len(net[r]) = 4 /\ net[r][3].resp.ok /\ net[r][4].resp.ok)
    /\ NumLines(r, VerificationFailText) <= 1

\* C10 as stated: the symbols query follows a successful count query, a
\* failed count query prints only the failure, the symbols line needs both
\* queries, and no run prints both the success lines and the failure line.
C10_ResultsOrFailureNeverBoth ==
    \A r \in Runs :
        /\ C10_Order(r)
        /\ ~(HasLine(r, ConnectedText) /\ HasLine(r, FoundText)
               /\ HasLine(r, VerificationFailText))

\* C10 amended: as stated, except that the success lines ("Database
\* connection successful", "Found N price history records") and
\* "Verification failed" are both printed exactly when the count query
\* returned and the symbols query then raised.
C10_VerificationOrderAndReport ==
    \A r \in Runs :
        /\ C10_Order(r)
        /\ (HasLine(r, ConnectedText) /\ HasLine(r, FoundText)
               /\ HasLine(r, VerificationFailText))
           <=> (Len(net[r]) = 4 /\ net[r][3].resp.ok /\ ~net[r][4].resp.ok)

\* The count query returned, the symbols query raised, the run ended.
C10_Witness ==
    \E r \in Runs :
        /\ Exited(r)
        /\ Len(net[r]) = 4
        /\ net[r][3].resp.ok
        /\ ~net[r][4].resp.ok
        /\ HasLine(r, FoundText)
        /\ HasLine(r, VerificationFailText)

====
